---- MODULE Spec2Model ----
(***************************************************************************)
(* serde-querystring: the decode bridge (QSDeserializer, src/src/de/mod.rs) *)
(* and the axum adapter (src/serde-querystring-axum/src/lib.rs), driven by  *)
(* the derived struct visitor of the test structs.                          *)
(*                                                                          *)
(* A raw slice is a sequence of one-character strings.  An input is the     *)
(* query string already cut into its `key=value` fields.  The mode parsers, *)
(* the slice model, the value deserializers and the error type live in      *)
(* files that are not part of the sources at hand (error.rs, slices.rs,     *)
(* traits.rs, the parsers); they are modelled from the specification and    *)
(* from the expectations of the tests that call them.                       *)
(***************************************************************************)
EXTENDS Integers, Sequences, FiniteSets, TLC

VARIABLES entry, config, target, query,
          mode, pc, iter, value, key, field, result, response,
          last, armed, pulled

vars == <<entry, config, target, query, mode, pc, iter, value, key, field, result, response, last, armed, pulled>>

\* What the calls made so far say about the next one (history, not program state).
history == <<last, armed, pulled>>

(* ------------------------------ bounds -------------------------------- *)

\* Longest input, in fields.
MaxFields == 3
\* Longest pair collection handed to the bridge when it is driven directly.
MaxPairs == 3
\* Arity of the fixed-size targets of the tests: [usize; 3], (usize, usize, usize).
ArrayLen == 3

(* ------------------------------ options ------------------------------- *)

None == [some |-> FALSE]
Some(x) == [some |-> TRUE, v |-> x]

Ok(x) == [ok |-> TRUE, v |-> x]
Err(kind) == [ok |-> FALSE, kind |-> kind]

(* ----------------------------- slice model ---------------------------- *)

HexDigits == <<"0", "1", "2", "3", "4", "5", "6", "7", "8", "9", "a", "b", "c", "d", "e", "f">>
HexUpper == <<"0", "1", "2", "3", "4", "5", "6", "7", "8", "9", "A", "B", "C", "D", "E", "F">>

IsHex(c) == \E i \in 1..16 : HexDigits[i] = c \/ HexUpper[i] = c
HexVal(c) == (CHOOSE i \in 1..16 : HexDigits[i] = c \/ HexUpper[i] = c) - 1

\* The character of a byte, for the bytes the inputs can spell.
Chr(n) ==
    CASE n = 97 -> "a"
      [] n = 101 -> "e"
      [] n = 49 -> "1"
      [] n = 51 -> "3"
      [] n = 32 -> " "
      [] OTHER -> "?"

\* Percent-decoding: %XX -> byte, + -> space; a % without two hex digits fails.
RECURSIVE PercentDecode(_)
PercentDecode(s) ==
    IF s = <<>> THEN Ok(<<>>)
    ELSE IF Head(s) = "%" THEN
        IF Len(s) >= 3 /\ IsHex(s[2]) /\ IsHex(s[3]) THEN
            LET rest == PercentDecode(SubSeq(s, 4, Len(s))) IN
            IF rest.ok THEN Ok(<<Chr(16 * HexVal(s[2]) + HexVal(s[3]))>> \o rest.v)
            ELSE rest
        ELSE Err("InvalidEncoding")
    ELSE
        LET rest == PercentDecode(Tail(s)) IN
        IF rest.ok THEN Ok(<<IF Head(s) = "+" THEN " " ELSE Head(s)>> \o rest.v)
        ELSE rest

Digits == <<"0", "1", "2", "3", "4", "5", "6", "7", "8", "9">>
IsDigit(c) == \E i \in 1..10 : Digits[i] = c
DigitVal(c) == (CHOOSE i \in 1..10 : Digits[i] = c) - 1

RECURSIVE DecimalValue(_, _)
DecimalValue(s, acc) ==
    IF s = <<>> THEN acc ELSE DecimalValue(Tail(s), 10 * acc + DigitVal(Head(s)))

\* Unsigned integer coercion of a decoded text: digits only.
ParseInt(s) ==
    IF s # <<>> /\ \A i \in 1..Len(s) : IsDigit(s[i])
    THEN Ok(DecimalValue(s, 0))
    ELSE Err("InvalidType")

(* ------------------------------ modes --------------------------------- *)

UrlEncoded == [name |-> "UrlEncoded", sep |-> ""]
Duplicate == [name |-> "Duplicate", sep |-> ""]
Delimiter(s) == [name |-> "Delimiter", sep |-> s]
Brackets == [name |-> "Brackets", sep |-> ""]

(* --------------------------- mode parsers ----------------------------- *)
(* A pair collection is a sequence of [key, vals]: the raw key of the      *)
(* first field of the group and the group's entries [tok, val] in          *)
(* encounter order (tok: the bracket token of the field, Brackets only).   *)

Entry(tok, val) == [tok |-> tok, val |-> val]

\* Two raw keys are one key when they decode to the same text.
SameKey(a, b) == PercentDecode(a) = PercentDecode(b)

RECURSIVE IndexOfKey(_, _, _)
IndexOfKey(pairs, k, i) ==
    IF i > Len(pairs) THEN 0
    ELSE IF SameKey(pairs[i].key, k) THEN i
    ELSE IndexOfKey(pairs, k, i + 1)

\* Last value wins; the position of the first occurrence is kept.
UrlEncodedInsert(pairs, f) ==
    LET i == IndexOfKey(pairs, f.key, 1) IN
    IF i = 0 THEN Append(pairs, [key |-> f.key, vals |-> <<Entry(None, f.val)>>])
    ELSE [pairs EXCEPT ![i].vals = <<Entry(None, f.val)>>]

\* Every occurrence is kept, in encounter order.
DuplicateInsert(pairs, f) ==
    LET i == IndexOfKey(pairs, f.key, 1) IN
    IF i = 0 THEN Append(pairs, [key |-> f.key, vals |-> <<Entry(None, f.val)>>])
    ELSE [pairs EXCEPT ![i].vals = Append(@, Entry(None, f.val))]

RECURSIVE IndexOfChar(_, _, _)
IndexOfChar(s, c, i) ==
    IF i > Len(s) THEN 0
    ELSE IF s[i] = c THEN i
    ELSE IndexOfChar(s, c, i + 1)

\* name, name[tok]: one bracket level; anything inside the outer brackets is the token.
BracketRoot(k) ==
    LET p == IndexOfChar(k, "[", 1) IN
    IF p > 1 /\ k[Len(k)] = "]" THEN SubSeq(k, 1, p - 1) ELSE k

BracketToken(k) ==
    LET p == IndexOfChar(k, "[", 1) IN
    IF p > 1 /\ k[Len(k)] = "]" THEN Some(SubSeq(k, p + 1, Len(k) - 1)) ELSE None

\* All entries of one root key are accumulated in one group.
BracketsInsert(pairs, f) ==
    LET root == BracketRoot(f.key)
        i == IndexOfKey(pairs, root, 1)
        e == Entry(BracketToken(f.key), f.val)
    IN  IF i = 0 THEN Append(pairs, [key |-> root, vals |-> <<e>>])
        ELSE [pairs EXCEPT ![i].vals = Append(@, e)]

Insert(m, pairs, f) ==
    CASE m.name = "UrlEncoded" -> UrlEncodedInsert(pairs, f)
      [] m.name = "Duplicate" -> DuplicateInsert(pairs, f)
      [] m.name = "Delimiter" -> UrlEncodedInsert(pairs, f)
      [] m.name = "Brackets" -> BracketsInsert(pairs, f)

RECURSIVE ParseFrom(_, _, _, _)
ParseFrom(m, fields, i, pairs) ==
    IF i > Len(fields) THEN pairs
    ELSE ParseFrom(m, fields, i + 1, Insert(m, pairs, fields[i]))

Parse(m, fields) == ParseFrom(m, fields, 1, <<>>)

(* ------------------------- value deserializers ------------------------ *)
(* Target shapes of the field `value` of the test structs:                 *)
(*   "u32" "str"       scalars                                             *)
(*   "Vec"             Vec<u32>                                            *)
(*   "Array"           [usize; 3] and (usize, usize, usize): both are      *)
(*                     deserialize_tuple(3)                                *)
(*   "OptionVec"       Option<Vec<u64>>                                    *)
(*   "ValueEnum"       enum { A(i32, i32), B(i32), C {} }                  *)
(*   "Side"            enum { Left, Right, God }                           *)

VariantKind(shape, name) ==
    IF shape = "ValueEnum" THEN
        CASE name = <<"A">> -> "tuple"
          [] name = <<"B">> -> "newtype"
          [] name = <<"C">> -> "struct"
          [] OTHER -> "unknown"
    ELSE
        CASE name = <<"L", "e", "f", "t">> -> "unit"
          [] name = <<"R", "i", "g", "h", "t">> -> "unit"
          [] name = <<"G", "o", "d">> -> "unit"
          [] OTHER -> "unknown"

\* A scalar target reads one raw slice.
DeserializeScalar(shape, raw) ==
    LET d == PercentDecode(raw) IN
    IF ~d.ok THEN d
    ELSE CASE shape = "u32" -> ParseInt(d.v)
           [] shape = "str" -> Ok(d.v)
           [] OTHER ->
                LET kind == VariantKind(shape, d.v) IN
                CASE kind = "unit" -> Ok(d.v)
                  [] kind = "unknown" -> Err("Custom")
                  [] OTHER -> Err("InvalidType")

RECURSIVE Split(_, _, _)
Split(s, sep, acc) ==
    IF s = <<>> THEN <<acc>>
    ELSE IF Head(s) = sep THEN <<acc>> \o Split(Tail(s), sep, <<>>)
    ELSE Split(Tail(s), sep, Append(acc, Head(s)))

Contains(s, c) == \E i \in 1..Len(s) : s[i] = c

\* Position of an entry in its group read as a sequence: entries without a
\* numeric bracket token first, then by the number of the token.
Index(e) ==
    IF e.tok.some /\ ParseInt(e.tok.v).ok THEN ParseInt(e.tok.v).v ELSE -1

RECURSIVE InsertSorted(_, _)
InsertSorted(sorted, e) ==
    IF sorted = <<>> THEN <<e>>
    ELSE IF Index(sorted[Len(sorted)]) <= Index(e) THEN Append(sorted, e)
    ELSE Append(InsertSorted(SubSeq(sorted, 1, Len(sorted) - 1), e), sorted[Len(sorted)])

RECURSIVE SortByIndex(_)
SortByIndex(vals) ==
    IF vals = <<>> THEN <<>>
    ELSE InsertSorted(SortByIndex(SubSeq(vals, 1, Len(vals) - 1)), vals[Len(vals)])

Raws(vals) == [i \in 1..Len(vals) |-> vals[i].val]

\* The raw slice a scalar target is given.
ScalarSlice(m, vals) ==
    LET lastv == vals[Len(vals)].val IN
    CASE m.name = "Delimiter" ->
            IF Contains(lastv, m.sep) THEN Err("InvalidType") ELSE Ok(lastv)
      [] m.name = "Brackets" ->
            IF \E i \in 1..Len(vals) : vals[i].tok.some THEN Err("InvalidType") ELSE Ok(lastv)
      [] OTHER -> Ok(lastv)

\* The raw slices a sequence target is given.
SeqSlices(m, vals) ==
    CASE m.name = "UrlEncoded" -> Err("InvalidType")
      [] m.name = "Duplicate" -> Ok(Raws(vals))
      [] m.name = "Delimiter" -> Ok(Split(vals[Len(vals)].val, m.sep, <<>>))
      [] m.name = "Brackets" -> Ok(Raws(SortByIndex(vals)))

RECURSIVE DeserializeElements(_, _)
DeserializeElements(raws, acc) ==
    IF raws = <<>> THEN Ok(acc)
    ELSE LET e == DeserializeScalar("u32", Head(raws)) IN
         IF e.ok THEN DeserializeElements(Tail(raws), Append(acc, e.v)) ELSE e

Min(a, b) == IF a <= b THEN a ELSE b

DeserializeSeq(m, vals) ==
    LET raws == SeqSlices(m, vals) IN
    IF raws.ok THEN DeserializeElements(raws.v, <<>>) ELSE raws

\* The visitor asks for ArrayLen elements, one by one; what is left over is an error.
DeserializeTuple(m, vals) ==
    LET raws == SeqSlices(m, vals) IN
    IF ~raws.ok THEN raws
    ELSE LET r == DeserializeElements(SubSeq(raws.v, 1, Min(ArrayLen, Len(raws.v))), <<>>) IN
         IF ~r.ok THEN r
         ELSE IF Len(raws.v) # ArrayLen THEN Err("InvalidLength")
         ELSE r

DeserializeValue(m, shape, vals) ==
    CASE shape = "Vec" -> DeserializeSeq(m, vals)
      [] shape = "Array" -> DeserializeTuple(m, vals)
      [] shape = "OptionVec" ->
            LET r == DeserializeSeq(m, vals) IN IF r.ok THEN Ok(Some(r.v)) ELSE r
      [] OTHER ->
            LET raw == ScalarSlice(m, vals) IN
            IF raw.ok THEN DeserializeScalar(shape, raw.v) ELSE raw

(* ------------------------------- seeds -------------------------------- *)

FieldName == <<"v", "a", "l", "u", "e">>

IdentifierSeed == [kind |-> "identifier", shape |-> ""]
IgnoredSeed == [kind |-> "ignored", shape |-> ""]
TypeSeed(shape) == [kind |-> "type", shape |-> shape]
AcceptSeed == [kind |-> "accept", shape |-> ""]
RejectSeed == [kind |-> "reject", shape |-> ""]

\* seed.deserialize(k.into_deserializer(..)) for a key
DeserializeKey(seed, k) ==
    CASE seed.kind = "identifier" ->
            LET d == PercentDecode(k) IN
            IF ~d.ok THEN d
            ELSE Ok(IF d.v = FieldName THEN "value" ELSE "__ignore")
      [] seed.kind = "reject" -> Err("Custom")
      [] OTHER -> Ok(k)

\* seed.deserialize(value.into_deserializer(..)) for a value
DeserializeSeed(seed, m, vals) ==
    CASE seed.kind = "type" -> DeserializeValue(m, seed.shape, vals)
      [] seed.kind = "reject" -> Err("Custom")
      [] seed.kind = "ignored" -> Ok("ignored")
      [] OTHER -> Ok(vals)

(* ------------------------------ the bridge ---------------------------- *)

Panic == [ok |-> FALSE, kind |-> "panic", msg |-> "Method next_value called before next_key"]

QSDeserializer_new(it) == [iter |-> it, value |-> None]

\* Mutant: the pair's value is not kept for the next_value call.
next_key_seed_value_not_stored(it, val, seed) ==
    IF it # <<>> THEN
        LET k == DeserializeKey(seed, Head(it).key) IN
        [iter |-> Tail(it),
         value |-> val,
         ret |-> IF k.ok THEN Ok(Some(k.v)) ELSE k]
    ELSE [iter |-> it, value |-> val, ret |-> Ok(None)]

\* Mutant: the iterator is advanced twice for one key.
next_key_seed_advances_twice(it, val, seed) ==
    IF it # <<>> THEN
        LET k == DeserializeKey(seed, Head(it).key) IN
        [iter |-> IF Len(it) > 1 THEN Tail(Tail(it)) ELSE <<>>,
         value |-> Some(Head(it).vals),
         ret |-> IF k.ok THEN Ok(Some(k.v)) ELSE k]
    ELSE [iter |-> it, value |-> val, ret |-> Ok(None)]

next_key_seed(it, val, seed) ==
    IF it # <<>> THEN
        LET k == DeserializeKey(seed, Head(it).key) IN
        [iter |-> Tail(it),
         value |-> Some(Head(it).vals),
         ret |-> IF k.ok THEN Ok(Some(k.v)) ELSE k]
    ELSE [iter |-> it, value |-> val, ret |-> Ok(None)]

\* Mutant: the value is read but not taken, and stays for the next call.
next_value_seed_not_taken(m, val, seed) ==
    IF val.some
    THEN [value |-> val, ret |-> DeserializeSeed(seed, m, val.v)]
    ELSE [value |-> val, ret |-> Panic]

next_value_seed(m, val, seed) ==
    IF val.some
    THEN [value |-> None, ret |-> DeserializeSeed(seed, m, val.v)]
    ELSE [value |-> None, ret |-> Panic]

(* ------------------------------ the adapter --------------------------- *)

\* Mutant: the type's own mode is not consulted.
get_mode_ignores_override(override) == UrlEncoded

\* QueryStringMode::get_mode: the type's own mode, or the trait's default.
get_mode(override) == IF override.some THEN override.v ELSE UrlEncoded

\* parts.uri.query().unwrap_or_default()
unwrap_or_default(q) == IF q.some THEN q.v ELSE <<>>

\* Display of the error, by kind.
ErrorDisplay(e) == e.kind

into_response(e) ==
    [status |-> 400,
     body |-> "Failed to deserialize query string: " \o ErrorDisplay(e)]

(* ------------------------------- inputs ------------------------------- *)

KeyValue == <<"v", "a", "l", "u", "e">>
KeyValueEncoded == <<"v", "%", "6", "1", "l", "u", "%", "6", "5">>
KeyValueEncodedTail == <<"v", "a", "l", "u", "%", "6", "5">>
KeyOther == <<"k", "e", "y">>
KeyBracket(t) == <<"v", "a", "l", "u", "e", "[", t, "]">>

PlainKeys == {KeyValue, KeyValueEncoded, KeyOther}
EncodedKeys == {KeyValue, KeyValueEncoded, KeyValueEncodedTail}
BracketKeys == {KeyValue, KeyBracket("1"), KeyBracket("2"), KeyBracket("3")}

Fields(keys, vals) == [key : keys, val : vals]

\* The fields the inputs of a decode are made of, by mode and target: the
\* keys and values of the tests of that mode.
FieldSets(m, shape) ==
    CASE m.name = "Brackets" -> {Fields(BracketKeys, {<<"1">>, <<"3">>})}
      [] m.name = "Delimiter" ->
            {Fields({KeyValue, KeyOther}, {<<"1">>, <<"3">>, <<"1", "|", "3">>})}
      [] shape \in {"ValueEnum", "Side"} ->
            {Fields(PlainKeys, {<<"B">>, <<"G", "o", "d">>})}
      [] shape \in {"u32", "Vec"} ->
            {Fields(PlainKeys, {<<"1">>, <<"3">>, <<"B">>}),
             Fields(EncodedKeys, {<<"1">>, <<"2">>, <<"3">>})}
      [] OTHER -> {Fields(PlainKeys, {<<"1">>, <<"3">>, <<"B">>})}

Inputs(FS) == UNION {[1..n -> F] : n \in 0..MaxFields, F \in FS}

DirectModes == {UrlEncoded, Duplicate, Delimiter("|"), Delimiter(","), Brackets}

ShapesFor(m) ==
    CASE m.name = "Brackets" -> {"u32", "Vec", "Array"}
      [] m.name = "Delimiter" -> {"u32", "str", "Vec", "Array"}
      [] OTHER -> {"u32", "str", "Vec", "Array", "ValueEnum", "Side"}

\* The adapter's tests: Pagination and Params under the default mode, Params under Brackets.
AdapterShapes(override) == IF override.some THEN {"Vec"} ELSE {"OptionVec", "u32"}
AdapterFields(override, shape) ==
    IF override.some THEN FieldSets(override.v, shape)
    ELSE {Fields(PlainKeys, {<<"1">>, <<"3">>, <<"B">>})}

(* ------------------------------ the driver ---------------------------- *)

Finished == IF entry = "adapter" THEN "extracted" ELSE "done"

\* A struct field that never came: None for an Option, an error otherwise.
missing_field(shape) == IF shape = "OptionVec" THEN Ok(None) ELSE Err("Custom")

NoCall == [op |-> "none"]

Init ==
    /\ \/ /\ entry = "from_bytes"
          /\ config \in {Some(m) : m \in DirectModes}
          /\ target \in ShapesFor(config.v)
          /\ query \in {Some(i) : i \in Inputs(FieldSets(config.v, target))}
       \/ /\ entry = "adapter"
          /\ config \in {None, Some(Brackets)}
          /\ target \in AdapterShapes(config)
          /\ query \in {None} \cup {Some(i) : i \in Inputs(AdapterFields(config, target))}
    /\ mode = None
    /\ pc = "start"
    /\ iter = <<>>
    /\ value = None
    /\ key = ""
    /\ field = None
    /\ result = None
    /\ response = None
    /\ last = NoCall
    /\ armed = FALSE
    /\ pulled = None

\* from_bytes(input, config): parse, wrap in the bridge, hand it to T::deserialize.
from_bytes ==
    /\ pc = "start" /\ entry = "from_bytes"
    /\ LET de == QSDeserializer_new(Parse(config.v, query.v)) IN
        /\ mode' = Some(config.v)
        /\ iter' = de.iter
        /\ value' = de.value
    /\ pc' = "next_key"
    /\ UNCHANGED <<entry, config, target, query, key, field, result, response, history>>

from_request_parts ==
    /\ pc = "start" /\ entry = "adapter"
    /\ LET m == get_mode(config)
           de == QSDeserializer_new(Parse(m, unwrap_or_default(query)))
       IN
        /\ mode' = Some(m)
        /\ iter' = de.iter
        /\ value' = de.value
    /\ pc' = "next_key"
    /\ UNCHANGED <<entry, config, target, query, key, field, result, response, history>>

\* The derived visit_map: one next_key call and what the visitor does with its answer.
visit_map_next_key ==
    /\ pc = "next_key"
    /\ LET r == next_key_seed(iter, value, IdentifierSeed) IN
        /\ iter' = r.iter
        /\ value' = r.value
        /\ IF ~r.ret.ok THEN
                /\ result' = Some(r.ret) /\ pc' = Finished /\ UNCHANGED key
           ELSE IF ~r.ret.v.some THEN
                /\ result' = Some(IF field.some THEN Ok(field.v) ELSE missing_field(target))
                /\ pc' = Finished /\ UNCHANGED key
           ELSE IF r.ret.v.v = "value" /\ field.some THEN
                /\ result' = Some(Err("Custom")) /\ pc' = Finished /\ UNCHANGED key
           ELSE /\ key' = r.ret.v.v /\ pc' = "next_value" /\ UNCHANGED result
    /\ UNCHANGED <<entry, config, target, query, mode, field, response, history>>

visit_map_next_value ==
    /\ pc = "next_value"
    /\ LET r == next_value_seed(mode.v, value, IF key = "value" THEN TypeSeed(target) ELSE IgnoredSeed) IN
        /\ value' = r.value
        /\ IF ~r.ret.ok THEN
                /\ result' = Some(r.ret) /\ pc' = Finished /\ UNCHANGED field
           ELSE /\ field' = (IF key = "value" THEN Some(r.ret.v) ELSE field)
                /\ pc' = "next_key" /\ UNCHANGED result
    /\ UNCHANGED <<entry, config, target, query, mode, iter, key, response, history>>

\* The extractor's answer reaches the router: the handler runs, or the rejection answers.
respond ==
    /\ pc = "extracted"
    /\ response' = (IF result.v.ok THEN Some([status |-> 200, extracted |-> result.v.v])
                    ELSE IF result.v.kind = "panic" THEN None
                    ELSE Some(into_response(result.v)))
    /\ pc' = "done"
    /\ UNCHANGED <<entry, config, target, query, mode, iter, value, key, field, result, history>>

Next ==
    \/ from_bytes
    \/ from_request_parts
    \/ visit_map_next_key
    \/ visit_map_next_value
    \/ respond

Spec == Init /\ [][Next]_vars

(* ------------------- the bridge under an arbitrary driver ------------- *)
(* Any sequence of next_key / next_value calls, with seeds that accept or  *)
(* reject what they are given.  `armed` is TRUE exactly when the most      *)
(* recent call was a next_key that returned a key; `pulled` is the value   *)
(* of the pair most recently taken from the iterator since the last        *)
(* next_value call.  `last` records the most recent call with both as they *)
(* were when it was made.                                                  *)

BridgeKeys == {KeyValue, KeyOther}
BridgeVals == {<<Entry(None, <<"1">>)>>, <<Entry(None, <<"3">>)>>}
BridgePairs == [key : BridgeKeys, vals : BridgeVals]
DriverSeeds == {AcceptSeed, RejectSeed}

InitBridge ==
    /\ entry = "bridge"
    /\ config = None
    /\ target = ""
    /\ query = None
    /\ mode = Some(Duplicate)
    /\ pc = "driving"
    /\ \E it \in UNION {[1..n -> BridgePairs] : n \in 0..MaxPairs} :
        LET de == QSDeserializer_new(it) IN iter = de.iter /\ value = de.value
    /\ key = ""
    /\ field = None
    /\ result = None
    /\ response = None
    /\ last = NoCall
    /\ armed = FALSE
    /\ pulled = None

driver_next_key ==
    /\ pc = "driving"
    /\ \E seed \in DriverSeeds :
        LET r == next_key_seed(iter, value, seed) IN
        /\ iter' = r.iter
        /\ value' = r.value
        /\ last' = [op |-> "next_key", seed |-> seed, ret |-> r.ret,
                    armed |-> armed, pulled |-> pulled]
        /\ armed' = (r.ret.ok /\ r.ret.v.some)
        /\ pulled' = (IF iter # <<>> THEN Some(Head(iter).vals) ELSE pulled)
    /\ UNCHANGED <<entry, config, target, query, mode, pc, key, field, result, response>>

driver_next_value ==
    /\ pc = "driving"
    /\ \E seed \in DriverSeeds :
        LET r == next_value_seed(mode.v, value, seed) IN
        /\ value' = r.value
        /\ last' = [op |-> "next_value", seed |-> seed, ret |-> r.ret,
                    armed |-> armed, pulled |-> pulled]
        /\ pc' = (IF r.ret = Panic THEN "panicked" ELSE "driving")
    /\ armed' = FALSE
    /\ pulled' = None
    /\ UNCHANGED <<entry, config, target, query, mode, iter, key, field, result, response>>

NextBridge ==
    \/ driver_next_key
    \/ driver_next_value

SpecBridge == InitBridge /\ [][NextBridge]_vars

(* ============================== claims ================================ *)

\* The fields of the input that was decoded.
TheInput == IF query.some THEN query.v ELSE <<>>

NamesField(k) == PercentDecode(k) = Ok(FieldName)

\* The raw values of the occurrences of key `value`, in input order.
Occurrences ==
    LET OfField(f) == NamesField(f.key)
        occ == SelectSeq(TheInput, OfField)
    IN  [i \in 1..Len(occ) |-> occ[i].val]

LastOf(s) == s[Len(s)]

AllInts(raws) == \A i \in 1..Len(raws) : DeserializeScalar("u32", raws[i]).ok
IntsOf(raws) == [i \in 1..Len(raws) |-> DeserializeScalar("u32", raws[i]).v]

Decoded == pc = "done" /\ result.some
DecodedIn(m) == Decoded /\ mode = Some(m)

\* C1: in UrlEncoded mode a key that occurs one or more times, decoded into a
\* scalar field, gives the value of its last occurrence in the input.
C1_LastOccurrenceWins ==
    (DecodedIn(UrlEncoded) /\ target \in {"u32", "str"} /\ Occurrences # <<>>)
        => result.v = DeserializeScalar(target, LastOf(Occurrences))

C1_Witness ==
    /\ DecodedIn(UrlEncoded) /\ target = "u32"
    /\ Len(Occurrences) = 3 /\ Len(TheInput) = 3
    /\ Occurrences[1] = <<"1">> /\ Occurrences[3] = <<"3">>
    /\ result.v = Ok(3)

\* C2: in Duplicate mode a key that occurs n >= 1 times gives a sequence-shaped
\* target (Vec, array or tuple of size n) all n occurrences in encounter order,
\* and a scalar target only the last occurrence.
C2_DuplicateAllOrLast ==
    (DecodedIn(Duplicate) /\ Occurrences # <<>>) =>
        /\ target = "Vec" =>
                result.v = (IF AllInts(Occurrences) THEN Ok(IntsOf(Occurrences))
                            ELSE Err("InvalidType"))
        /\ (target = "Array" /\ Len(Occurrences) = ArrayLen /\ AllInts(Occurrences)) =>
                result.v = Ok(IntsOf(Occurrences))
        /\ target \in {"u32", "str"} =>
                result.v = DeserializeScalar(target, LastOf(Occurrences))

C2_Witness ==
    /\ DecodedIn(Duplicate) /\ target = "Array"
    /\ Len(Occurrences) = ArrayLen
    /\ Occurrences[1] = <<"1">> /\ Occurrences[2] = <<"3">> /\ Occurrences[3] = <<"3">>
    /\ result.v = Ok(<<1, 3, 3>>)

\* The raw keys differ, and every one of them decodes to `value`.
MixedEncodings ==
    /\ \A i \in 1..Len(TheInput) : NamesField(TheInput[i].key)
    /\ \E i, j \in 1..Len(TheInput) : TheInput[i].key # TheInput[j].key

\* C3: fields whose raw keys differ but decode to the same text are occurrences
\* of one key: Duplicate mode gives a sequence field every one of them in
\* encounter order, UrlEncoded mode gives a scalar field the last of them.
C3_DecodedKeyIdentity ==
    (Decoded /\ MixedEncodings) =>
        /\ (mode = Some(Duplicate) /\ target = "Vec" /\ AllInts(Occurrences)) =>
                result.v = Ok([i \in 1..Len(TheInput) |->
                                DeserializeScalar("u32", TheInput[i].val).v])
        /\ (mode = Some(UrlEncoded) /\ target = "u32") =>
                result.v = DeserializeScalar("u32", TheInput[Len(TheInput)].val)

\* v%61lu%65=1&valu%65=2&value=3
DecodedKeysInput ==
    <<[key |-> KeyValueEncoded, val |-> <<"1">>],
      [key |-> KeyValueEncodedTail, val |-> <<"2">>],
      [key |-> KeyValue, val |-> <<"3">>]>>

C3_Witness ==
    /\ DecodedIn(Duplicate) /\ target = "Vec"
    /\ TheInput = DecodedKeysInput
    /\ result.v = Ok(<<1, 2, 3>>)

\* Every field is value[t] with a numeric token t, no token twice.
IsIndexed(k) == \E t \in {"1", "2", "3"} : k = KeyBracket(t)
TokenNumber(k) == DigitVal(k[Len(k) - 1])

DistinctNumericTokens ==
    /\ TheInput # <<>>
    /\ \A i \in 1..Len(TheInput) : IsIndexed(TheInput[i].key)
    /\ \A i, j \in 1..Len(TheInput) : i # j => TheInput[i].key # TheInput[j].key

\* The position of field i when the fields are put in ascending order of token.
Rank(i) ==
    1 + Cardinality({j \in 1..Len(TheInput) :
                        TokenNumber(TheInput[j].key) < TokenNumber(TheInput[i].key)})

InEncounterOrder(seq) ==
    seq = [i \in 1..Len(TheInput) |-> DeserializeScalar("u32", TheInput[i].val).v]

InTokenOrder(seq) ==
    /\ Len(seq) = Len(TheInput)
    /\ \A i \in 1..Len(TheInput) :
            seq[Rank(i)] = DeserializeScalar("u32", TheInput[i].val).v

BracketsSequence(e) ==
    /\ Decoded /\ entry = e /\ config = Some(Brackets) /\ target = "Vec"
    /\ DistinctNumericTokens

CutPoints(raw, sep) == {i \in 1..Len(raw) : raw[i] = sep} \cup {0, Len(raw) + 1}
CutAt(raw, sep, k) ==
    CHOOSE c \in CutPoints(raw, sep) :
        Cardinality({d \in CutPoints(raw, sep) : d < c}) = k
Pieces(raw, sep) ==
    [k \in 1..(Cardinality(CutPoints(raw, sep)) - 1) |->
        SubSeq(raw, CutAt(raw, sep, k - 1) + 1, CutAt(raw, sep, k) - 1)]

\* C6: in Delimiter mode with separator s, the value of a key is cut at every s
\* and a sequence target gets the sub-values left to right; a value without s
\* goes whole to a scalar target, and of a repeated key a scalar target gets the
\* last occurrence.
C6_DelimiterSplits ==
    (Decoded /\ mode.v.name = "Delimiter" /\ Occurrences # <<>>) =>
        /\ (target = "Vec" /\ Len(Occurrences) = 1) =>
                LET parts == Pieces(Occurrences[1], mode.v.sep) IN
                result.v = (IF AllInts(parts) THEN Ok(IntsOf(parts)) ELSE Err("InvalidType"))
        /\ (target \in {"u32", "str"} /\ ~Contains(LastOf(Occurrences), mode.v.sep)) =>
                result.v = DeserializeScalar(target, LastOf(Occurrences))

\* separator |, value=1|3 gives [1, 3]
C6_Witness ==
    /\ DecodedIn(Delimiter("|")) /\ target = "Vec"
    /\ Occurrences = <<<<"1", "|", "3">>>>
    /\ result.v = Ok(<<1, 3>>)

CarriesData(raw) ==
    LET d == PercentDecode(raw) IN
    d.ok /\ VariantKind("ValueEnum", d.v) \in {"tuple", "newtype", "struct"}

\* C7: in UrlEncoded mode, decoding a key into a fixed-size array, a tuple, or an
\* enum variant that carries data fails with InvalidType.
C7_UrlEncodedInvalidType ==
    (DecodedIn(UrlEncoded) /\ Occurrences # <<>>) =>
        /\ target = "Array" => result.v = Err("InvalidType")
        /\ (target = "ValueEnum" /\ CarriesData(LastOf(Occurrences))) =>
                result.v = Err("InvalidType")

\* three integers for a target of arity three: still InvalidType, not a value
C7_Witness ==
    /\ DecodedIn(UrlEncoded) /\ target = "Array"
    /\ Len(Occurrences) = ArrayLen /\ AllInts(Occurrences)
    /\ result.v = Err("InvalidType")

\* C8 as stated: through the adapter with the default mode, a key that occurs
\* n >= 1 times reaches an optional sequence field as Some of all n values in
\* encounter order, and a request without a query string gives None.
C8_DefaultModeSequence ==
    (Decoded /\ entry = "adapter" /\ ~config.some /\ target = "OptionVec") =>
        IF Occurrences = <<>> THEN response.v = [status |-> 200, extracted |-> None]
        ELSE AllInts(Occurrences) =>
                response.v = [status |-> 200, extracted |-> Some(IntsOf(Occurrences))]

\* C9 as stated: when decoding the query string fails, the default rejection is
\* 400 Bad Request with exactly the body "Failed to deserialize query string".
C9_RejectionBody ==
    (Decoded /\ entry = "adapter" /\ ~result.v.ok) =>
        response.v = [status |-> 400, body |-> "Failed to deserialize query string"]

\* C10 as stated: a next_value call delivers a value only as the first
\* next_value call after a next_key call that returned a key, and it is that
\* key's value; every other next_value call panics.
C10_OnlyAfterSuccessfulKey ==
    last.op = "next_value" =>
        IF last.armed THEN last.ret = DeserializeSeed(last.seed, mode.v, last.pulled.v)
        ELSE last.ret = Panic

\* C10 as amended: a next_value call hands a value to its seed exactly when a
\* next_key call has taken a pair from the iterator since the previous
\* next_value call (or since construction), whether or not that key
\* deserialized; the value is that of the pair taken last; every other
\* next_value call panics.
C10_AfterPairTaken ==
    last.op = "next_value" =>
        IF last.pulled.some THEN last.ret = DeserializeSeed(last.seed, mode.v, last.pulled.v)
        ELSE last.ret = Panic

\* next_key failed on its key, and the next_value call after it was given the value
C10_Witness ==
    /\ last.op = "next_value" /\ ~last.armed /\ last.pulled.some
    /\ last.seed = AcceptSeed /\ last.ret = Ok(last.pulled.v)

====
